---- MODULE Spec2Model ----
(***************************************************************************)
(* Model of class Image of PyBDSM (src/src/python/image.py): the           *)
(* per-image data container, its map cache indirection (get_map/put_map),  *)
(* its cross-process state transfer (__getstate__/__setstate__) and its    *)
(* delegated operations (load_pars, show_fit, export_image, ...).          *)
(*                                                                         *)
(* A Python object is its attribute dictionary: a function from attribute  *)
(* names to values.  A Python value is a tagged record [t, v]: t the type, *)
(* v a tuple holding the payload.  A str is the tuple of its pieces, so    *)
(* that '+' is \o and '' is <<>>.  An ndarray is stood for by a number.    *)
(***************************************************************************)
EXTENDS Integers, Sequences, FiniteSets, TLC

VARIABLES
    img,      \* the Image instance: attribute name -> value
    disk,     \* the external map store of img: map name -> stored array
    fs,       \* the file system seen by os.path.exists: path -> content
    wire,     \* the pickled state in flight between two processes
    recv,     \* the Image instance of the receiving process
    last,     \* the most recent call on the Image and all it did
    prev,     \* the call before it (operation and arguments only)
    lastput   \* per map name, the most recent put_map that returned

vars == <<img, disk, fs, wire, recv, last, prev, lastput>>

----------------------------------------------------------------------------
(* Bounds *)

\* arrays are 0..MaxVal
MaxVal == 3

\* the transferred scalars are 0..MaxScalar
MaxScalar == 1

----------------------------------------------------------------------------
(* Python values *)

None == [t |-> "None", v |-> <<>>]
PyBool(b) == [t |-> "bool", v |-> <<b>>]
True == PyBool(TRUE)
False == PyBool(FALSE)
PyStr(s) == [t |-> "str", v |-> s]
Arr(n) == [t |-> "ndarray", v |-> <<n>>]
Exc(type, msg) == [t |-> type, v |-> msg]

Arrays == {Arr(n) : n \in 0..MaxVal}

\* how a call ends
Return(val) == [kind |-> "return", val |-> val]
Raise(exc) == [kind |-> "raise", val |-> exc]

hasattr(self, name) == name \in DOMAIN self

setattr(self, name, val) ==
    [a \in DOMAIN self \cup {name} |-> IF a = name THEN val ELSE self[a]]

getattr(self, name) ==
    IF hasattr(self, name) THEN Return(self[name])
    ELSE Raise(Exc("AttributeError", <<name>>))

\* str(err) of an exception built from one message (or from none)
str(err) == err.v

----------------------------------------------------------------------------
(* Options (opts.Opts): filename, which the Image's own code reads, and    *)
(* one option that stands for all the others.                              *)

Filenames == {<<"a.fits">>, <<"b.fits">>}

Opts == [filename : Filenames, thresh_isl : {3, 5}]

\* the options the Image is constructed with
CtorOpts == {[filename |-> <<"a.fits">>, thresh_isl |-> 3]}

\* the class-level defaults of the declared attributes (lines 41-55) that the
\* methods read
ClassDefaults ==
    [masked |-> FALSE, completed_Ops |-> <<>>, do_cache |-> FALSE]
    @@ ("_is_interactive_shell" :> FALSE)

__init__(opts) ==
    [opts |-> opts, extraparams |-> <<>>] @@ ("_prev_opts" :> None)
    @@ ClassDefaults

----------------------------------------------------------------------------
(* The external map store (functions.store_map / functions.retrieve_map),  *)
(* one file per (image, map name).                                         *)

MapNames == {"ch0", "image"}

\* what persisting an array does to it: the store keeps a fixed dtype, which
\* drops the lowest bit of the stand-in number
Normalize(a) == Arr(a.v[1] - (a.v[1] % 2))

store_map(dsk, map_name, map_data) ==
    [n \in DOMAIN dsk \cup {map_name} |->
        IF n = map_name THEN Normalize(map_data) ELSE dsk[n]]

retrieve_map(dsk, map_name) ==
    IF map_name \in DOMAIN dsk THEN dsk[map_name] ELSE None

----------------------------------------------------------------------------
(* Map cache indirection *)

\* mutant: the read goes to the store whatever do_cache says
get_map_store_only(self, dsk, map_name) ==
    Return(retrieve_map(dsk, map_name))

get_map(self, dsk, map_name) ==
    IF self.do_cache
    THEN Return(retrieve_map(dsk, map_name))
    ELSE getattr(self, map_name)

\* mutant: with caching on, the attribute is set to the raw input instead of
\* being read back from the store
put_map_raw(self, dsk, map_name, map_data) ==
    [self |-> setattr(self, map_name, map_data),
     disk |-> IF self.do_cache THEN store_map(dsk, map_name, map_data) ELSE dsk,
     out |-> Return(None)]

\* mutant: with caching on, the attribute is read back before the store is
\* written
put_map_read_first(self, dsk, map_name, map_data) ==
    IF self.do_cache
    THEN [self |-> setattr(self, map_name, get_map(self, dsk, map_name).val),
          disk |-> store_map(dsk, map_name, map_data), out |-> Return(None)]
    ELSE [self |-> setattr(self, map_name, map_data),
          disk |-> dsk, out |-> Return(None)]

put_map(self, dsk, map_name, map_data) ==
    IF self.do_cache
    THEN LET stored == store_map(dsk, map_name, map_data)
             got == get_map(self, stored, map_name)
         IN  IF got.kind = "raise"
             THEN [self |-> self, disk |-> stored, out |-> got]
             ELSE [self |-> setattr(self, map_name, got.val),
                   disk |-> stored, out |-> Return(None)]
    ELSE [self |-> setattr(self, map_name, map_data),
          disk |-> dsk, out |-> Return(None)]

----------------------------------------------------------------------------
(* Cross-process state transfer *)

StateKeys == {"thresh_pix", "minpix_isl", "clipped_mean"}

ScalarVals == 0..MaxScalar

PyDict(d) == [t |-> "dict", v |-> <<d>>]

__getstate__(self) ==
    IF ~hasattr(self, "thresh_pix") THEN getattr(self, "thresh_pix")
    ELSE IF ~hasattr(self, "minpix_isl") THEN getattr(self, "minpix_isl")
    ELSE IF ~hasattr(self, "clipped_mean") THEN getattr(self, "clipped_mean")
    ELSE Return(PyDict([thresh_pix |-> self.thresh_pix,
                        minpix_isl |-> self.minpix_isl,
                        clipped_mean |-> self.clipped_mean]))

\* mutant: the cache flag travels with the state
setstate_do_cache(self, state) ==
    setattr(setattr(setattr(setattr(self,
        "thresh_pix", state.thresh_pix),
        "minpix_isl", state.minpix_isl),
        "clipped_mean", state.clipped_mean),
        "do_cache", TRUE)

__setstate__(self, state) ==
    setattr(setattr(setattr(self,
        "thresh_pix", state.thresh_pix),
        "minpix_isl", state.minpix_isl),
        "clipped_mean", state.clipped_mean)

----------------------------------------------------------------------------
(* Collaborators of module interface and plotresults, and the file system  *)

SavSuffix == <<".pybdsm.sav">>

\* the paths the model's file system can hold
Paths == {f \o SavSuffix : f \in Filenames} \cup {<<"pars.sav">>}

SavFile(opts) == [t |-> "sav", v |-> <<opts>>]
JunkFile == [t |-> "junk", v |-> <<>>]

exists(files, path) == path \in DOMAIN files

write(files, path, content) ==
    [q \in DOMAIN files \cup {path} |-> IF q = path THEN content ELSE files[q]]

PyImage(obj) == [t |-> "Image", v |-> <<obj>>]

NotSavErr == Exc("Exception", <<"not a parameter save file">>)

\* interface.load_pars(loadfile): (timg, err), timg an Image built from the
\* saved options, or None with the error when the file is no save file
interface_load_pars(files, loadfile) ==
    IF files[loadfile].t = "sav"
    THEN [timg |-> PyImage(__init__(files[loadfile].v[1])), err |-> None]
    ELSE [timg |-> None, err |-> NotSavErr]

\* interface.save_pars(img, savefile): the options written to savefile, or to
\* the default path
interface_save_pars(self, files, savefile) ==
    write(files,
          IF savefile = None THEN self.opts.filename \o SavSuffix ELSE savefile.v,
          SavFile(self.opts))

\* interface.set_pars(img, **kwargs): the named option set
interface_set_pars(self, key, val) ==
    setattr(self, "opts", [self.opts EXCEPT ![key] = val])

\* interface.process(img, **kwargs): on success the stages have run and have
\* inserted their products, nisl (the number of islands) among them
interface_process(self, success, nisl) ==
    IF success
    THEN setattr(setattr(self, "nisl", nisl), "completed_Ops", <<"process">>)
    ELSE self

\* what interface.export_image and interface.write_catalog can do: return a
\* result, raise a RuntimeError or an error of a subclass of it, or raise an
\* error of another type
Msgs == {<<"disk full">>, <<>>}

CollabOutcomes ==
    {Return(True), Return(False)}
    \cup {Raise(Exc("RuntimeError", m)) : m \in Msgs}
    \cup {Raise(Exc("NotImplementedError", <<"x">>))}
    \cup {Raise(Exc("IOError", <<"denied">>))}

\* RuntimeError and the built-in exception derived from it
RuntimeErrors == {"RuntimeError", "NotImplementedError"}

\* whether "except RuntimeError" catches exc: it is a RuntimeError or an
\* instance of a subclass
caught(exc) == exc.t \in RuntimeErrors

Collab(fn, args) == [fn |-> fn, args |-> args]

----------------------------------------------------------------------------
(* Delegated operations.  Each yields the Image after the call, how the    *)
(* call ended, what it printed and the collaborator calls it made.         *)

Result(self, out, stdout, calls) ==
    [self |-> self, out |-> out, stdout |-> stdout, calls |-> calls]

\* "\n\033[31;1mERROR\033[0m: ": a newline, then ERROR between the escape
\* sequences that switch bold red on and off (the escape character itself
\* stands in the string)
ErrorTag == <<"\n[31;1mERROR[0m: ">>

interactive(self) == self["_is_interactive_shell"]

list_pars(self) ==
    Result(self, Return(None), <<>>, <<Collab("interface.list_pars", <<>>)>>)

set_pars(self, key, val) ==
    Result(interface_set_pars(self, key, val), Return(None), <<>>,
           <<Collab("interface.set_pars", <<key>>)>>)

process(self, success, nisl) ==
    Result(interface_process(self, success, nisl), Return(PyBool(success)),
           <<>>, <<Collab("interface.process", <<>>)>>)

save_pars(self, savefile) ==
    Result(self, Return(None), <<>>,
           <<Collab("interface.save_pars", <<savefile>>)>>)

\* load_pars with one of three slips: "raise" (a missing file raises in the
\* interactive shell too), "clobber" (an invalid file's path is kept as the
\* filename option), "keep" (the loaded filename is not reset)
load_pars_slip(self, files, loadfile, slip) ==
    LET path == IF loadfile = None \/ loadfile = PyStr(<<>>)
                THEN self.opts.filename \o SavSuffix
                ELSE loadfile.v
    IN  IF exists(files, path)
        THEN LET r == interface_load_pars(files, path)
                 called == <<Collab("interface.load_pars", <<path>>)>>
                 failed == IF slip = "clobber"
                           THEN setattr(self, "opts",
                                        [self.opts EXCEPT !.filename = path])
                           ELSE self
             IN  IF r.timg # None
                 THEN LET orig_filename == self.opts.filename
                          loaded == r.timg.v[1].opts
                      IN  Result(setattr(self, "opts",
                                   IF slip = "keep" THEN loaded
                                   ELSE [loaded EXCEPT !.filename = orig_filename]),
                                 Return(None), <<>>, called)
                 ELSE IF interactive(self)
                      THEN Result(failed, Return(None),
                                  <<ErrorTag \o <<"'">> \o path
                                    \o <<"' is not a valid parameter save file.">>>>,
                                  called)
                      ELSE Result(failed, Raise(Exc("RuntimeError", str(r.err))),
                                  <<>>, called)
        ELSE IF interactive(self) /\ slip # "raise"
             THEN Result(self, Return(None),
                         <<ErrorTag \o <<"File '">> \o path \o <<"' not found.">>>>,
                         <<>>)
             ELSE Result(self, Raise(Exc("RuntimeError", <<"File not found">>)),
                         <<>>, <<>>)

load_pars_raise(self, files, loadfile) ==
    load_pars_slip(self, files, loadfile, "raise")

load_pars_clobber(self, files, loadfile) ==
    load_pars_slip(self, files, loadfile, "clobber")

load_pars_keep(self, files, loadfile) ==
    load_pars_slip(self, files, loadfile, "keep")

load_pars(self, files, loadfile) ==
    LET path == IF loadfile = None \/ loadfile = PyStr(<<>>)
                THEN self.opts.filename \o SavSuffix
                ELSE loadfile.v
    IN  IF exists(files, path)
        THEN LET r == interface_load_pars(files, path)
                 called == <<Collab("interface.load_pars", <<path>>)>>
             IN  IF r.timg # None
                 THEN LET orig_filename == self.opts.filename
                          loaded == r.timg.v[1].opts
                      IN  Result(setattr(self, "opts",
                                   [loaded EXCEPT !.filename = orig_filename]),
                                 Return(None), <<>>, called)
                 ELSE IF interactive(self)
                      THEN Result(self, Return(None),
                                  <<ErrorTag \o <<"'">> \o path
                                    \o <<"' is not a valid parameter save file.">>>>,
                                  called)
                      ELSE Result(self, Raise(Exc("RuntimeError", str(r.err))),
                                  <<>>, called)
        ELSE IF interactive(self)
             THEN Result(self, Return(None),
                         <<ErrorTag \o <<"File '">> \o path \o <<"' not found.">>>>,
                         <<>>)
             ELSE Result(self, Raise(Exc("RuntimeError", <<"File not found">>)),
                         <<>>, <<>>)

\* mutant: the plot is attempted before the check
show_fit_plot_first(self) ==
    Result(self, Return(PyBool(hasattr(self, "nisl"))),
           IF hasattr(self, "nisl") THEN <<>>
           ELSE <<<<"Image has not been processed. Please run process_image first.">>>>,
           <<Collab("plotresults.plotresults", <<>>)>>)

show_fit(self) ==
    IF ~hasattr(self, "nisl")
    THEN Result(self, Return(False),
                <<<<"Image has not been processed. Please run process_image first.">>>>,
                <<>>)
    ELSE Result(self, Return(True), <<>>,
                <<Collab("plotresults.plotresults", <<>>)>>)

\* the try/except of export_image and write_catalog around the delegated
\* call fn, which ends as res
\* mutant: the error is printed and swallowed in both modes
delegate_swallow(self, fn, res) ==
    LET called == <<Collab(fn, <<>>)>>
    IN  IF res.kind = "return" THEN Result(self, res, <<>>, called)
        ELSE IF caught(res.val)
        THEN Result(self, Return(None), <<ErrorTag \o str(res.val)>>, called)
        ELSE Result(self, res, <<>>, called)

\* mutant: in the interactive shell a failed call returns False
delegate_false(self, fn, res) ==
    LET called == <<Collab(fn, <<>>)>>
    IN  IF res.kind = "return" THEN Result(self, res, <<>>, called)
        ELSE IF caught(res.val)
        THEN IF interactive(self)
             THEN Result(self, Return(False), <<ErrorTag \o str(res.val)>>, called)
             ELSE Result(self, Raise(Exc("RuntimeError", str(res.val))), <<>>, called)
        ELSE Result(self, res, <<>>, called)

delegate(self, fn, res) ==
    LET called == <<Collab(fn, <<>>)>>
    IN  IF res.kind = "return" THEN Result(self, res, <<>>, called)
        ELSE IF caught(res.val)
        THEN IF interactive(self)
             THEN Result(self, Return(None), <<ErrorTag \o str(res.val)>>, called)
             ELSE Result(self, Raise(Exc("RuntimeError", str(res.val))), <<>>, called)
        ELSE Result(self, res, <<>>, called)

export_image(self, res) == delegate(self, "interface.export_image", res)

write_catalog(self, res) == delegate(self, "interface.write_catalog", res)

----------------------------------------------------------------------------
(* Call records *)

NoCall == [op |-> "none", args |-> <<>>]

\* prev keeps the call before the last one when it was a put_map: what a
\* read "immediately after a write" needs

\* a call, the Image before it, how it ended, what it printed and the calls
\* it made on its collaborators
Call(op, args, pre, out, stdout, calls) ==
    [op |-> op, args |-> args, pre |-> pre, out |-> out,
     stdout |-> stdout, calls |-> calls]

Short(c) == IF c.op = "put_map" THEN [op |-> c.op, args |-> c.args] ELSE NoCall

----------------------------------------------------------------------------
(* Actions: the map cache indirection *)

Call_get_map(map_name) ==
    /\ last' = Call("get_map", <<map_name>>, img,
                    get_map(img, disk, map_name), <<>>, <<>>)
    /\ prev' = Short(last)
    /\ UNCHANGED <<img, disk, fs, wire, recv, lastput>>

Call_put_map(map_name, map_data) ==
    LET r == put_map(img, disk, map_name, map_data)
    IN  /\ img' = r.self
        /\ disk' = r.disk
        /\ last' = Call("put_map", <<map_name, map_data>>, img, r.out, <<>>, <<>>)
        /\ prev' = Short(last)
        /\ lastput' = IF r.out.kind = "return"
                      THEN setattr(lastput, map_name,
                                   [data |-> map_data, cache |-> img.do_cache])
                      ELSE lastput
        /\ UNCHANGED <<fs, wire, recv>>

\* img.do_cache = b, as the pipeline does when it decides to cache to disk
Set_do_cache(b) ==
    /\ img.do_cache # b
    /\ img' = setattr(img, "do_cache", b)
    /\ last' = Call("set_do_cache", <<b>>, img, Return(None), <<>>, <<>>)
    /\ prev' = Short(last)
    /\ UNCHANGED <<disk, fs, wire, recv, lastput>>

----------------------------------------------------------------------------
(* Actions: the delegated operations *)

\* the call's record, with everything but the Image and the files unchanged
Did(op, args, r) ==
    /\ img' = r.self
    /\ last' = Call(op, args, img, r.out, r.stdout, r.calls)
    /\ prev' = Short(last)
    /\ UNCHANGED <<disk, wire, recv, lastput>>

Call_list_pars ==
    /\ Did("list_pars", <<>>, list_pars(img))
    /\ UNCHANGED fs

Call_set_pars(key, val) ==
    /\ Did("set_pars", <<key>>, set_pars(img, key, val))
    /\ UNCHANGED fs

Call_process(success, nisl) ==
    /\ Did("process", <<>>, process(img, success, nisl))
    /\ UNCHANGED fs

Call_save_pars(savefile) ==
    /\ Did("save_pars", <<savefile>>, save_pars(img, savefile))
    /\ fs' = interface_save_pars(img, fs, savefile)

Call_load_pars(loadfile) ==
    /\ Did("load_pars", <<loadfile>>, load_pars(img, fs, loadfile))
    /\ UNCHANGED fs

Call_show_fit ==
    /\ Did("show_fit", <<>>, show_fit(img))
    /\ UNCHANGED fs

Call_export_image(res) ==
    /\ Did("export_image", <<res>>, export_image(img, res))
    /\ UNCHANGED fs

Call_write_catalog(res) ==
    /\ Did("write_catalog", <<res>>, write_catalog(img, res))
    /\ UNCHANGED fs

\* img._is_interactive_shell = b, as the interactive shell does
Set_is_interactive_shell(b) ==
    /\ interactive(img) # b
    /\ img' = setattr(img, "_is_interactive_shell", b)
    /\ last' = Call("set_is_interactive_shell", <<b>>, img, Return(None), <<>>, <<>>)
    /\ prev' = Short(last)
    /\ UNCHANGED <<disk, fs, wire, recv, lastput>>

\* a file that is no parameter save file appears at path
Env_write_junk(path) ==
    /\ ~exists(fs, path)
    /\ fs' = write(fs, path, JunkFile)
    /\ last' = Call("env", <<path>>, img, Return(None), <<>>, <<>>)
    /\ prev' = Short(last)
    /\ UNCHANGED <<img, disk, wire, recv, lastput>>

----------------------------------------------------------------------------
(* Actions: the state transfer *)

\* a processing module inserts one of the three scalars at run time
Insert(name, val) ==
    /\ img' = setattr(img, name, val)
    /\ last' = Call("insert", <<name, val>>, img, Return(None), <<>>, <<>>)
    /\ prev' = Short(last)
    /\ UNCHANGED <<disk, fs, wire, recv, lastput>>

\* the sending process pickles img
Call___getstate__ ==
    LET out == __getstate__(img)
    IN  /\ wire' = IF out.kind = "return" THEN out.val ELSE wire
        /\ last' = Call("__getstate__", <<>>, img, out, <<>>, <<>>)
        /\ prev' = Short(last)
        /\ UNCHANGED <<img, disk, fs, recv, lastput>>

\* pickle makes the receiving process's Image without running __init__: it
\* has the class-level defaults and no attribute of its own
Blank == ClassDefaults

New_receiver ==
    /\ recv # Blank
    /\ recv' = Blank
    /\ last' = Call("__new__", <<>>, recv, Return(None), <<>>, <<>>)
    /\ prev' = Short(last)
    /\ UNCHANGED <<img, disk, fs, wire, lastput>>

\* the state on the wire is applied, to the receiver or to img itself
Call___setstate__(target) ==
    /\ wire # None
    /\ IF target = "recv"
       THEN /\ recv' = __setstate__(recv, wire.v[1])
            /\ UNCHANGED img
       ELSE /\ img' = __setstate__(img, wire.v[1])
            /\ UNCHANGED recv
    /\ last' = Call("__setstate__", <<target, wire>>,
                    IF target = "recv" THEN recv ELSE img,
                    Return(None), <<>>, <<>>)
    /\ prev' = Short(last)
    /\ UNCHANGED <<disk, fs, wire, lastput>>

----------------------------------------------------------------------------

Init ==
    /\ \E o \in CtorOpts : img = __init__(o)
    /\ disk = <<>>
    /\ fs = <<>>
    /\ wire = None
    /\ recv = Blank
    /\ last = Call("__init__", <<>>, <<>>, Return(None), <<>>, <<>>)
    /\ prev = NoCall
    /\ lastput = <<>>

NextMaps ==
    \/ \E n \in MapNames : Call_get_map(n)
    \/ \E n \in MapNames, a \in Arrays : Call_put_map(n, a)
    \/ \E b \in BOOLEAN : Set_do_cache(b)

SpecMaps == Init /\ [][NextMaps]_vars

LoadArgs == {None, PyStr(<<>>)} \cup {PyStr(q) : q \in Paths}

NextOps ==
    \/ Call_list_pars
    \/ \E f \in Filenames : Call_set_pars("filename", f)
    \/ \E t \in {3, 5} : Call_set_pars("thresh_isl", t)
    \/ \E ok \in BOOLEAN : Call_process(ok, 2)
    \/ \E f \in {None} \cup {PyStr(q) : q \in Paths} : Call_save_pars(f)
    \/ \E f \in LoadArgs : Call_load_pars(f)
    \/ Call_show_fit
    \/ \E res \in CollabOutcomes : Call_export_image(res)
    \/ \E res \in CollabOutcomes : Call_write_catalog(res)
    \/ \E b \in BOOLEAN : Set_is_interactive_shell(b)
    \/ \E q \in Paths : Env_write_junk(q)

SpecOps == Init /\ [][NextOps]_vars

NextTransfer ==
    \/ \E k \in StateKeys, x \in ScalarVals : Insert(k, x)
    \/ \E b \in BOOLEAN : Set_do_cache(b)
    \/ Call___getstate__
    \/ New_receiver
    \/ \E target \in {"recv", "img"} : Call___setstate__(target)

SpecTransfer == Init /\ [][NextTransfer]_vars

\* every operation of the Image
Next == NextMaps \/ NextOps \/ NextTransfer

Spec == Init /\ [][Next]_vars

----------------------------------------------------------------------------
(* Properties of the map cache indirection (checked under SpecMaps) *)

\* what the store gives back for a value put into it
RoundTrip(map_name, map_data) ==
    retrieve_map(store_map(disk, map_name, map_data), map_name)

\* the last two calls are put_map(name, ..) and then get_map(name)
ReadAfterWrite ==
    /\ last.op = "get_map"
    /\ prev.op = "put_map"
    /\ prev.args[1] = last.args[1]

\* C1 as stated: whenever do_cache is true, every map name written so far has
\* its attribute equal to the value of its most recent put_map and equal to
\* what get_map returns for it, whatever the changes of do_cache in between.
C1_AsStated ==
    img.do_cache =>
        \A n \in DOMAIN lastput :
            /\ hasattr(img, n)
            /\ img[n] = lastput[n].data
            /\ get_map(img, disk, n) = Return(img[n])

\* C1 amended: whenever do_cache is true, every map name whose most recent
\* put_map ran with do_cache true has its attribute equal to what get_map
\* returns for it, which is the store's round trip of the value of that
\* put_map.
C1_CachedWriteCoherent ==
    img.do_cache =>
        \A n \in DOMAIN lastput :
            lastput[n].cache =>
                /\ hasattr(img, n)
                /\ img[n] = RoundTrip(n, lastput[n].data)
                /\ get_map(img, disk, n) = Return(img[n])

\* do_cache was switched off and on again after a cached write that the store
\* normalized, and another name was last written without the cache
C1_Witness ==
    /\ img.do_cache
    /\ last.op = "set_do_cache"
    /\ \E n \in DOMAIN lastput : lastput[n].cache /\ img[n] # lastput[n].data
    /\ \E n \in DOMAIN lastput : ~lastput[n].cache

\* C2: with do_cache false, put_map(name, data) followed immediately by
\* get_map(name) returns exactly data, also when the name had an earlier value.
C2_UncachedRoundTrip ==
    (ReadAfterWrite /\ ~last.pre.do_cache) => last.out = Return(prev.args[2])

\* an uncached write of a value the store would have changed, over an earlier
\* and different value of the name, then read
C2_Witness ==
    /\ ReadAfterWrite
    /\ ~last.pre.do_cache
    /\ last.out.kind = "return"
    /\ last.out.val # Normalize(last.out.val)
    /\ last.args[1] \in DOMAIN disk
    /\ disk[last.args[1]] # Normalize(last.out.val)

\* C3: with do_cache true, after put_map(name, data) returns, the attribute
\* of that name equals what retrieve_map returns for it, and so does an
\* immediate get_map(name): the stored value, not the raw input.
C3_CachedReflectsStore ==
    /\ (last.op = "put_map" /\ last.pre.do_cache /\ last.out.kind = "return") =>
            /\ hasattr(img, last.args[1])
            /\ img[last.args[1]] = retrieve_map(disk, last.args[1])
    /\ (ReadAfterWrite /\ last.pre.do_cache) =>
            /\ last.out = Return(retrieve_map(disk, last.args[1]))
            /\ last.out = Return(img[last.args[1]])

\* a cached write of a value the store normalizes, over an earlier value
C3_Witness ==
    /\ last.op = "put_map"
    /\ last.pre.do_cache
    /\ img[last.args[1]] # last.args[2]
    /\ hasattr(last.pre, last.args[1])
    /\ last.pre[last.args[1]] # img[last.args[1]]

----------------------------------------------------------------------------
(* Properties of the delegated operations (checked under SpecOps) *)

\* the path a load_pars call looks at
LoadPath(c) ==
    IF c.args[1] = None \/ c.args[1] = PyStr(<<>>)
    THEN c.pre.opts.filename \o SavSuffix
    ELSE c.args[1].v

LoadMissing == last.op = "load_pars" /\ ~exists(fs, LoadPath(last))

LoadInvalid ==
    /\ last.op = "load_pars"
    /\ exists(fs, LoadPath(last))
    /\ fs[LoadPath(last)].t = "junk"

LoadValid ==
    /\ last.op = "load_pars"
    /\ exists(fs, LoadPath(last))
    /\ fs[LoadPath(last)].t = "sav"

RaisedRuntimeError(c) == c.out.kind = "raise" /\ c.out.val.t = "RuntimeError"

\* C4: load_pars on a path that does not exist (given, or the default one)
\* raises a RuntimeError outside the interactive shell, prints a message and
\* returns without raising inside it, and never calls interface.load_pars.
C4_MissingFile ==
    LoadMissing =>
        /\ last.calls = <<>>
        /\ IF interactive(last.pre)
           THEN last.out.kind = "return" /\ Len(last.stdout) = 1
           ELSE RaisedRuntimeError(last) /\ last.stdout = <<>>

\* the default path of a changed filename is missing, in the interactive shell
C4_Witness ==
    /\ LoadMissing
    /\ last.args[1] = None
    /\ last.pre.opts.filename = <<"b.fits">>
    /\ interactive(last.pre)
    /\ fs # <<>>

\* C5: load_pars on an existing file that is no parameter save file leaves
\* the options (and the filename among them) as they were, in both modes.
C5_InvalidFileKeepsOpts ==
    LoadInvalid =>
        /\ img.opts = last.pre.opts
        /\ last.calls = <<Collab("interface.load_pars", <<LoadPath(last)>>)>>
        /\ IF interactive(last.pre)
           THEN last.out.kind = "return" /\ Len(last.stdout) = 1
           ELSE RaisedRuntimeError(last) /\ last.stdout = <<>>

C5_Witness ==
    /\ LoadInvalid
    /\ ~interactive(last.pre)
    /\ img.opts.filename # LoadPath(last)
    /\ img.opts \notin CtorOpts

\* for export_image and write_catalog: how the delegated call ended
Delegated == last.op \in {"export_image", "write_catalog"}

CollabRaisedRuntimeError ==
    /\ Delegated
    /\ last.args[1].kind = "raise"
    /\ last.args[1].val.t \in {"RuntimeError", "NotImplementedError"}

\* C6: when the delegated call of export_image or write_catalog raises a
\* RuntimeError (or an error of a subclass of it), the call raises a RuntimeError with the same message outside
\* the interactive shell, and prints it and raises nothing inside it; when the
\* delegated call returns, its result is returned unchanged.
C6_DelegationErrors ==
    /\ CollabRaisedRuntimeError =>
          IF interactive(last.pre)
          THEN /\ last.out.kind = "return"
               /\ last.stdout = <<ErrorTag \o last.args[1].val.v>>
          ELSE /\ last.out = Raise(Exc("RuntimeError", last.args[1].val.v))
               /\ last.stdout = <<>>
    /\ (Delegated /\ last.args[1].kind = "return") =>
          last.out = last.args[1] /\ last.stdout = <<>>

C6_Witness ==
    /\ CollabRaisedRuntimeError
    /\ last.op = "write_catalog"
    /\ ~interactive(last.pre)
    /\ last.out.val.v = <<"disk full">>

\* a delegated operation that failed in the interactive shell
FailedInteractive ==
    /\ LoadMissing \/ LoadInvalid \/ CollabRaisedRuntimeError
    /\ interactive(last.pre)

\* the values the operation returns when it succeeds
SuccessReturns(op) ==
    IF op = "load_pars" THEN {None} ELSE {True, False}

\* C7 as stated: in the interactive shell a failing delegated operation
\* prints a message, raises nothing, and returns a failure indicator that no
\* successful call of the operation returns.
C7_AsStated ==
    FailedInteractive =>
        /\ last.out.kind = "return"
        /\ Len(last.stdout) = 1
        /\ last.out.val \notin SuccessReturns(last.op)

\* C7 amended: in the interactive shell a failing delegated operation prints
\* a message, raises nothing and returns None; load_pars returns None when it
\* succeeds too.
C7_FailedReturnsNone ==
    /\ FailedInteractive =>
          /\ last.out = Return(None)
          /\ Len(last.stdout) = 1
    /\ LoadValid => last.out = Return(None) /\ last.stdout = <<>>

C7_Witness ==
    /\ FailedInteractive
    /\ last.op = "export_image"
    /\ last.out = Return(None)

\* C8: show_fit on an Image without the attribute nisl returns False and does
\* not call plotresults.plotresults; with the attribute it calls it exactly
\* once and returns True.
C8_ShowFit ==
    last.op = "show_fit" =>
        IF hasattr(last.pre, "nisl")
        THEN /\ last.out = Return(True)
             /\ last.calls = <<Collab("plotresults.plotresults", <<>>)>>
        ELSE /\ last.out = Return(False)
             /\ last.calls = <<>>

\* show_fit after a processing run that failed
C8_Witness ==
    /\ last.op = "show_fit"
    /\ ~hasattr(img, "nisl")
    /\ last.out = Return(False)
    /\ img.opts \notin CtorOpts

\* C10: load_pars never changes opts.filename, and a successful load replaces
\* every other option by the loaded one.
C10_FilenameKept ==
    last.op = "load_pars" =>
        /\ img.opts.filename = last.pre.opts.filename
        /\ LoadValid =>
              \A k \in DOMAIN img.opts \ {"filename"} :
                  img.opts[k] = fs[LoadPath(last)].v[1][k]
        /\ ~LoadValid => img.opts = last.pre.opts

\* a save file holding another filename and another threshold was loaded
C10_Witness ==
    /\ LoadValid
    /\ fs[LoadPath(last)].v[1].filename # img.opts.filename
    /\ fs[LoadPath(last)].v[1].thresh_isl # last.pre.opts.thresh_isl

----------------------------------------------------------------------------
(* Properties of the state transfer (checked under SpecTransfer) *)

\* the Image a __setstate__ call was applied to, after the call
Target == IF last.args[1] = "recv" THEN recv ELSE img

\* C9: __getstate__ returns exactly the keys thresh_pix, minpix_isl and
\* clipped_mean with the sender's values; __setstate__ sets exactly these
\* three attributes to the values of the state and nothing else.
C9_ThreeFields ==
    /\ (last.op = "__getstate__" /\ last.out.kind = "return") =>
          /\ DOMAIN last.out.val.v[1] = StateKeys
          /\ \A k \in StateKeys : last.out.val.v[1][k] = img[k]
          /\ wire = last.out.val
    /\ last.op = "__setstate__" =>
          /\ DOMAIN Target = DOMAIN last.pre \cup StateKeys
          /\ \A k \in StateKeys : Target[k] = last.args[2].v[1][k]
          /\ \A a \in DOMAIN Target \ StateKeys : Target[a] = last.pre[a]

\* the receiver got three values that the sender no longer holds, and
\* nothing else; the sender caches and the receiver does not
C9_Witness ==
    /\ last.op = "__setstate__"
    /\ last.args[1] = "recv"
    /\ DOMAIN recv = DOMAIN Blank \cup StateKeys
    /\ \A k \in StateKeys : hasattr(img, k) /\ recv[k] # img[k]
    /\ recv.thresh_pix # recv.minpix_isl
    /\ img.do_cache /\ ~recv.do_cache

====
